---- MODULE Spec2Model ----
(***************************************************************************)
(* Rental and payment lifecycle of the property leasing application.       *)
(*                                                                         *)
(* Two programs are modelled, selected by `variant`:                       *)
(*   "sqlite"  src/leasing.py      (tables clients/properties/rentals/     *)
(*                                  payments, pictures directory)          *)
(*   "memory"  src/leasing_Wdb.py  (module-level lists clients/properties/ *)
(*                                  rentals)                               *)
(* Free-text columns that no code path reads back into a decision          *)
(* (address, floor_area, description, email, phone, notes) are left out of *)
(* the rows.                                                               *)
(***************************************************************************)
EXTENDS Integers, Sequences, FiniteSets, TLC

VARIABLES
    variant,      \* which program is running: "sqlite" or "memory"
    clients,      \* table clients: set of rows
    properties,   \* table properties: set of rows
    rentals,      \* table rentals: set of rows
    payments,     \* table payments: set of rows
    seq,          \* AUTOINCREMENT high-water mark of each table
    pictures,     \* ids p for which a file property_<p>.<ext> is in PICTURES_DIR
    mclients,     \* leasing_Wdb.clients  (list)
    mproperties,  \* leasing_Wdb.properties (list)
    mrentals,     \* leasing_Wdb.rentals (list)
    last,         \* the last operation: its name, its target and its outcome
    calc,         \* a scheduling computation: its arguments and its results so far
    held          \* the entity object a caller of save holds: its class and its fields

vars == <<variant, clients, properties, rentals, payments, seq, pictures,
          mclients, mproperties, mrentals, last, calc,
          held>>

dbvars == <<clients, properties, rentals, payments, seq, pictures>>
memvars == <<mclients, mproperties, mrentals>>

\* ------------------------------------------------------------------ bounds
MaxProperties == 2
MaxClients == 2
MaxPayments == 1
YearSpan == 2

\* ------------------------------------------------------------------ values
\* SQL NULL / Python None in an integer column, a text column, a date column.
NULL == -1
NullText == "NULL"
NoDate == <<>>
NoPath == <<>>

\* What a raised ValueError / a failed statement leaves in place of a value.
ValueError == <<"ValueError">>

RENT_PERIODS == {"monthly", "yearly"}
PAYMENT_METHODS == {"cash", "credit_card", "bank_transfer", "check"}
PAYMENT_FREQUENCIES == {"monthly", "yearly"}
Categories == {"commercial", "residential", "land", "resorts", "venues"}

\* Inputs typed at the prompts: one well-formed answer sheet per operation, the
\* well-formed variations of it, and the sheet with each single answer made bad
\* in turn. The lifecycle machine adds properties of one category; the category
\* only selects the constructor and the columns it fills.
Jan15 == <<2024, 1, 15>>
Jan31 == <<2024, 1, 31>>
Feb29 == <<2024, 2, 29>>
Mar20 == <<2024, 3, 20>>

AddInputs ==
    LET base == [category |-> "residential", rent_amount_yearly |-> 12000,
                 rent_amount_monthly |-> 1000, rent_period |-> "monthly",
                 upload |-> FALSE]
    IN {base,
        [base EXCEPT !.rent_period = "yearly", !.upload = TRUE],
        [base EXCEPT !.category = "castle"],
        [base EXCEPT !.rent_period = "weekly", !.rent_amount_monthly = 1200]}

RentInputs ==
    LET base == [number |-> 1, name |-> "ann", start_date |-> Jan15, end_date |-> Mar20,
                 payment_method |-> "cash", payment_frequency |-> "monthly",
                 confirm |-> TRUE]
    IN {[base EXCEPT !.number = n, !.payment_frequency = f] :
            n \in 0..MaxProperties + 1, f \in PAYMENT_FREQUENCIES}
       \cup {[base EXCEPT !.start_date = NoDate],
             [base EXCEPT !.start_date = Jan31],
             [base EXCEPT !.start_date = Feb29, !.payment_frequency = "yearly"],
             [base EXCEPT !.end_date = NoDate],
             [base EXCEPT !.end_date = Jan15],
             [base EXCEPT !.payment_method = "barter"],
             [base EXCEPT !.payment_frequency = "weekly"],
             [base EXCEPT !.confirm = FALSE]}

\* The answers typed at the prompts of leasing_Wdb.rent_property (it asks for
\* no payment method and no confirmation): the same sheets, and one whose two
\* dates fall in the same calendar month.
RentInputsMem ==
    RentInputs
    \cup {[number |-> 1, name |-> "ann", start_date |-> Jan15, end_date |-> Jan31,
           payment_method |-> "cash", payment_frequency |-> "monthly",
           confirm |-> TRUE]}

\* The arguments of record_payment.
PaymentInputs ==
    LET base == [client_id |-> 1, property_id |-> 1, amount |-> 500,
                 paid_on |-> Jan15, freq |-> "monthly"]
    IN {base,
        [base EXCEPT !.property_id = NULL, !.freq = "yearly"],
        [base EXCEPT !.paid_on = Jan31]}

\* ------------------------------------------------------------------ dates
IsLeap(y) == (y % 4 = 0 /\ y % 100 # 0) \/ y % 400 = 0

DaysInMonth(y, m) ==
    IF m \in {4, 6, 9, 11} THEN 30
    ELSE IF m = 2 THEN (IF IsLeap(y) THEN 29 ELSE 28)
    ELSE 31

\* datetime(y, m, d) raises ValueError unless this holds.
ValidDate(y, m, d) ==
    /\ y \in 1..9999
    /\ m \in 1..12
    /\ d \in 1..DaysInMonth(y, m)

\* (the comparison that lets equal dates through)
DateLessOrEqual(a, b) ==
    \/ a[1] < b[1]
    \/ a[1] = b[1] /\ a[2] < b[2]
    \/ a[1] = b[1] /\ a[2] = b[2] /\ a[3] <= b[3]

\* Order of two dates (datetime comparison).
DateLess(a, b) ==
    \/ a[1] < b[1]
    \/ a[1] = b[1] /\ a[2] < b[2]
    \/ a[1] = b[1] /\ a[2] = b[2] /\ a[3] < b[3]

\* ------------------------------------------------------------------ helpers
\* dict.get(key): the value, or None when the key is absent.
Get(d, k, none) == IF k \in DOMAIN d THEN d[k] ELSE none

\* The rows of a table in rowid order, as a SELECT without ORDER BY returns them.
RECURSIVE ById(_)
ById(rows) ==
    IF rows = {} THEN <<>>
    ELSE LET r == CHOOSE x \in rows : \A y \in rows : x.id <= y.id
         IN <<r>> \o ById(rows \ {r})

Outcome(op, target, result) == [op |-> op, target |-> target, result |-> result]

\* A scheduling computation: the function asked for, its arguments, and the
\* values it has returned so far (out[2] is the function applied to out[1]).
Query(fn, start_date, end_date, frequency) ==
    [fn |-> fn, start_date |-> start_date, end_date |-> end_date,
     frequency |-> frequency, out |-> <<>>]

NoQuery == Query("none", NoDate, NoDate, NullText)

\* An entity object in the hands of a caller: type is its class ("client",
\* "property", "rental"), obj its attributes; obj.id is NULL until a save
\* assigns one.
Object(type, obj) == [type |-> type, obj |-> obj]

NoObject == Object("none", [id |-> NULL])

\* ------------------------------------------------------------------ pictures
\* PictureManager.upload_picture: the stored path PICTURES_DIR/property_<id><ext>.
upload_picture(property_id) == <<"property_pictures", property_id>>

\* PictureManager.delete_picture: removes the file of the property, if there is one.
delete_picture(files, property_id) == files \ {property_id}

\* ------------------------------------------------------------------ Property
\* (the residential details without the bathrooms)
get_specific_details_without_bathrooms(obj) ==
    CASE obj.category = "commercial"  -> <<>>
      [] obj.category = "residential" -> [bedrooms |-> obj.attrs.bedrooms]
      [] obj.category = "land"        -> [land_use |-> obj.attrs.land_use]
      [] obj.category = "resorts"     -> [amenities |-> obj.attrs.amenities]
      [] obj.category = "venues"      -> [capacity |-> obj.attrs.capacity]

\* get_specific_details of the five subclasses.
get_specific_details(obj) ==
    CASE obj.category = "commercial"  -> <<>>
      [] obj.category = "residential" -> [bedrooms |-> obj.attrs.bedrooms,
                                          bathrooms |-> obj.attrs.bathrooms]
      [] obj.category = "land"        -> [land_use |-> obj.attrs.land_use]
      [] obj.category = "resorts"     -> [amenities |-> obj.attrs.amenities]
      [] obj.category = "venues"      -> [capacity |-> obj.attrs.capacity]

\* The row Property.save writes for an object, under the identifier id.
PropertyRow(obj, id) ==
    LET specific_details == get_specific_details(obj) IN
    [id           |-> id,
     category     |-> obj.category,
     kind         |-> obj.kind,
     rent_amount  |-> obj.rent_amount,
     rent_period  |-> obj.rent_period,
     picture_path |-> obj.picture_path,
     is_available |-> IF obj.is_available THEN 1 ELSE 0,
     bedrooms     |-> Get(specific_details, "bedrooms", NULL),
     bathrooms    |-> Get(specific_details, "bathrooms", NULL),
     land_use     |-> Get(specific_details, "land_use", NullText),
     amenities    |-> Get(specific_details, "amenities", NullText),
     capacity     |-> Get(specific_details, "capacity", NULL)]

\* (the save that inserts whether or not the object has an id)
PropertySaveAlwaysInsert(table, high, obj) ==
    [table |-> table \cup {PropertyRow(obj, high + 1)},
     high  |-> high + 1,
     id    |-> high + 1]

\* (the save that numbers a new row by the count of rows, as a table without
\* AUTOINCREMENT bookkeeping would after a delete)
PropertySaveCountId(table, high, obj) ==
    IF obj.id # NULL
    THEN [table |-> {IF r.id = obj.id THEN PropertyRow(obj, obj.id) ELSE r : r \in table},
          high  |-> high,
          id    |-> obj.id]
    ELSE [table |-> table \cup {PropertyRow(obj, Cardinality(table) + 1)},
          high  |-> high + 1,
          id    |-> Cardinality(table) + 1]

\* Property.save: UPDATE by id when the object has one, else INSERT under the
\* next AUTOINCREMENT id. Gives the table, the sequence and the object's id.
PropertySave(table, high, obj) ==
    IF obj.id # NULL
    THEN [table |-> {IF r.id = obj.id THEN PropertyRow(obj, obj.id) ELSE r : r \in table},
          high  |-> high,
          id    |-> obj.id]
    ELSE [table |-> table \cup {PropertyRow(obj, high + 1)},
          high  |-> high + 1,
          id    |-> high + 1]

\* The constructors of the five subclasses, as add_property_interactive calls them.
NewProperty(category, rent_amount, rent_period) ==
    [category     |-> category,
     kind         |-> IF category = "land" THEN NullText ELSE "kind",
     rent_amount  |-> rent_amount,
     rent_period  |-> rent_period,
     picture_path |-> NoPath,
     is_available |-> TRUE,
     id           |-> NULL,
     attrs        |-> CASE category = "commercial"  -> <<>>
                        [] category = "residential" -> [bedrooms |-> 2, bathrooms |-> 1]
                        [] category = "land"        -> [land_use |-> "agricultural"]
                        [] category = "resorts"     -> [amenities |-> "pool"]
                        [] category = "venues"      -> [capacity |-> 100]]

\* add_property_interactive; upload is the answer to the picture prompt together
\* with whether upload_picture_interactive returned a stored path.
add_property_interactive(category, rent_amount_yearly, rent_amount_monthly, rent_period, upload) ==
    /\ variant = "sqlite"
    /\ seq.properties < MaxProperties
    /\ IF category \notin Categories
       THEN /\ last' = Outcome("add", NULL, "invalid_category")
            /\ UNCHANGED dbvars
       ELSE IF rent_period \notin RENT_PERIODS
       THEN /\ last' = Outcome("add", NULL, "invalid_rent_period")
            /\ UNCHANGED dbvars
       ELSE LET rent_amount == IF rent_period = "yearly" THEN rent_amount_yearly
                               ELSE rent_amount_monthly
                prop   == NewProperty(category, rent_amount, rent_period)
                first  == PropertySave(properties, seq.properties, prop)
                linked == [prop EXCEPT !.id = first.id,
                                       !.picture_path = upload_picture(first.id)]
                second == PropertySave(first.table, first.high, linked)
            IN /\ properties' = IF upload THEN second.table ELSE first.table
               /\ seq' = [seq EXCEPT !.properties = first.high]
               /\ pictures' = IF upload THEN pictures \cup {first.id} ELSE pictures
               /\ last' = Outcome("add", first.id, "ok")
               /\ UNCHANGED <<clients, rentals, payments>>
    /\ UNCHANGED <<variant, memvars, calc, held>>

\* ------------------------------------------------------------------ Client
\* Client.save for a new object: INSERT under the next AUTOINCREMENT id.
ClientSave(table, high, name) ==
    [table |-> table \cup {[id |-> high + 1, name |-> name]},
     high  |-> high + 1,
     id    |-> high + 1]

\* Client.save: UPDATE by id when the object has one, else the INSERT above.
ClientSaveObject(table, high, obj) ==
    IF obj.id # NULL
    THEN [table |-> {IF r.id = obj.id THEN [id |-> obj.id, name |-> obj.name] ELSE r :
                        r \in table},
          high  |-> high,
          id    |-> obj.id]
    ELSE ClientSave(table, high, obj.name)

\* ------------------------------------------------------------------ Rental
\* Rental.save for a new object: INSERT under the next AUTOINCREMENT id; status
\* is the constructor's default 'active'.
RentalSave(table, high, r) ==
    [table |-> table \cup {[r EXCEPT !.id = high + 1]},
     high  |-> high + 1,
     id    |-> high + 1]

\* Rental.save: UPDATE by id when the object has one, else the INSERT above.
RentalSaveObject(table, high, r) ==
    IF r.id # NULL
    THEN [table |-> {IF x.id = r.id THEN r ELSE x : x \in table},
          high  |-> high,
          id    |-> r.id]
    ELSE RentalSave(table, high, r)

\* ------------------------------------------------------------------ scheduling
\* datetime(y, m, d): the date, or ValueError when there is no such day.
MakeDate(y, m, d) == IF ValidDate(y, m, d) THEN <<y, m, d>> ELSE ValueError

\* (the December rollover that keeps the year)
calculate_next_due_date_same_year(start_date, payment_frequency) ==
    IF payment_frequency = "monthly"
    THEN LET next_month == start_date[2] + 1
         IN IF next_month > 12
            THEN MakeDate(start_date[1], 1, start_date[3])
            ELSE MakeDate(start_date[1], next_month, start_date[3])
    ELSE MakeDate(start_date[1] + 1, start_date[2], start_date[3])

calculate_next_due_date(start_date, payment_frequency) ==
    IF payment_frequency = "monthly"
    THEN LET next_month == start_date[2] + 1
         IN IF next_month > 12
            THEN MakeDate(start_date[1] + 1, 1, start_date[3])
            ELSE MakeDate(start_date[1], next_month, start_date[3])
    ELSE MakeDate(start_date[1] + 1, start_date[2], start_date[3])

\* next_due_date of the payments ledger: None for any frequency other than
\* "monthly" and "annual".
next_due_date(paid, frequency) ==
    IF frequency = "monthly"
    THEN LET month == paid[2] + 1
             year  == paid[1] + (IF month > 12 THEN 1 ELSE 0)
         IN MakeDate(year, IF month > 12 THEN 1 ELSE month, paid[3])
    ELSE IF frequency = "annual"
    THEN MakeDate(paid[1] + 1, paid[2], paid[3])
    ELSE NoDate

\* (the months without the adjustment for the day; the adjustment taken on the
\* same day of the month too)
DurationMonthsNoAdjust(start, end) ==
    (end[1] - start[1]) * 12 + (end[2] - start[2])
DurationMonthsDayInclusive(start, end) ==
    (end[1] - start[1]) * 12 + (end[2] - start[2])
        + (IF end[3] >= start[3] THEN 1 ELSE 0)

\* duration_months of rent_property_interactive.
DurationMonths(start, end) ==
    (end[1] - start[1]) * 12 + (end[2] - start[2])
        + (IF end[3] > start[3] THEN 1 ELSE 0)

\* (the total that ignores the rent period)
TotalAmountPerMonth(rent_amount, rent_period, duration_months) ==
    rent_amount * duration_months

\* total_amount of both rent workflows. Every rent amount that reaches the
\* quotient is a multiple of 12, so the float quotient rent_amount / 12 is exact.
TotalAmount(rent_amount, rent_period, duration_months) ==
    IF rent_period = "monthly" THEN rent_amount * duration_months
    ELSE (rent_amount \div 12) * duration_months

\* ------------------------------------------------------------------ statements
\* (the query without its WHERE clause)
AvailablePropsUnfiltered(table) == ById(table)

\* SELECT * FROM properties WHERE is_available=1
AvailableProps(table) == ById({p \in table : p.is_available = 1})

\* (the update without its WHERE clause; the update of no row)
SetUnavailableEveryRow(table, id) == {[p EXCEPT !.is_available = 0] : p \in table}
SetUnavailableNoRow(table, id) == table

\* UPDATE properties SET is_available=0 WHERE id=?
SetUnavailable(table, id) ==
    {IF p.id = id THEN [p EXCEPT !.is_available = 0] ELSE p : p \in table}

\* (the query on another status; the query on the client column)
ActiveRentalsEnded(table, property_id) ==
    {r \in table : r.property_id = property_id /\ r.status = "ended"}
ActiveRentalsByClient(table, property_id) ==
    {r \in table : r.client_id = property_id /\ r.status = "active"}

\* SELECT * FROM rentals WHERE property_id = ? AND status = 'active'
ActiveRentals(table, property_id) ==
    {r \in table : r.property_id = property_id /\ r.status = "active"}

\* DELETE FROM properties WHERE id = ?
DeletePropertyRow(table, property_id) == {p \in table : p.id # property_id}

\* (the delete without its WHERE clause)
DeletePaymentsEveryRow(table, property_id) == {}

\* DELETE FROM payments WHERE property_id = ?
DeletePayments(table, property_id) == {q \in table : q.property_id # property_id}

\* ------------------------------------------------------------------ rent
\* rent_property_interactive. number is what is typed at "Select property
\* number"; fault names the db.execute call that raises, "none" when every
\* statement succeeds. Each db.execute commits on its own, so the statements
\* before a raise stay recorded.
rent_property_interactive(number, name, start_date, end_date, payment_method, payment_frequency, confirm, fault) ==
    /\ variant = "sqlite"
    /\ LET available_props == AvailableProps(properties)
           choice == number - 1
       IN
       IF available_props = <<>>
       THEN /\ last' = Outcome("rent", NULL, "no_available_properties")
            /\ UNCHANGED dbvars
       ELSE IF choice < 0 \/ choice >= Len(available_props)
       THEN /\ last' = Outcome("rent", NULL, "invalid_selection")
            /\ UNCHANGED dbvars
       ELSE
       LET selected_prop == available_props[choice + 1]
           client == ClientSave(clients, seq.clients, name)
           Abort(result) ==
               \* a return (or a raise) after client.save
               /\ clients' = client.table
               /\ seq' = [seq EXCEPT !.clients = client.high]
               /\ last' = Outcome("rent", selected_prop.id, result)
               /\ UNCHANGED <<properties, rentals, payments, pictures>>
       IN
       /\ seq.clients < MaxClients
       /\ IF start_date = NoDate THEN Abort("start_date_required")
          ELSE IF end_date = NoDate THEN Abort("end_date_required")
          ELSE IF ~DateLess(start_date, end_date) THEN Abort("end_not_after_start")
          ELSE
          LET duration_months == DurationMonths(start_date, end_date)
              total_amount == TotalAmount(selected_prop.rent_amount,
                                          selected_prop.rent_period, duration_months)
              next_due == calculate_next_due_date(start_date, payment_frequency)
              rental == RentalSave(rentals, seq.rentals,
                           [id                |-> NULL,
                            client_id         |-> client.id,
                            property_id       |-> selected_prop.id,
                            start_date        |-> start_date,
                            end_date          |-> end_date,
                            duration_months   |-> duration_months,
                            total_amount      |-> total_amount,
                            payment_method    |-> payment_method,
                            payment_frequency |-> payment_frequency,
                            next_due_date     |-> next_due,
                            status            |-> "active"])
          IN
          IF duration_months <= 0 THEN Abort("duration_not_positive")
          ELSE IF payment_method \notin PAYMENT_METHODS THEN Abort("invalid_payment_method")
          ELSE IF payment_frequency \notin PAYMENT_FREQUENCIES
               THEN Abort("invalid_payment_frequency")
          ELSE IF next_due = ValueError THEN Abort("ValueError")
          ELSE IF ~confirm THEN Abort("cancelled")
          ELSE IF fault = "rental_save" THEN Abort("OperationalError")
          ELSE
          /\ clients' = client.table
          /\ rentals' = rental.table
          /\ seq' = [seq EXCEPT !.clients = client.high, !.rentals = rental.high]
          /\ properties' =
                IF fault = "update_property" THEN properties
                ELSE SetUnavailable(properties, selected_prop.id)
          /\ last' = Outcome("rent", selected_prop.id,
                             IF fault = "update_property" THEN "OperationalError" ELSE "ok")
          /\ UNCHANGED <<payments, pictures>>
    /\ UNCHANGED <<variant, memvars, calc, held>>

\* ------------------------------------------------------------------ delete
\* delete_property_interactive. fault = "delete_picture" is os.remove raising
\* OSError inside PictureManager.delete_picture; the handler catches ValueError
\* only, so the exception leaves the handler before the two DELETE statements.
delete_property_interactive(property_id, confirm, fault) ==
    /\ variant = "sqlite"
    /\ IF properties = {}
       THEN /\ last' = Outcome("delete", NULL, "no_properties")
            /\ UNCHANGED dbvars
       ELSE IF ~\E p \in properties : p.id = property_id
       THEN /\ last' = Outcome("delete", property_id, "not_found")
            /\ UNCHANGED dbvars
       ELSE IF ActiveRentals(rentals, property_id) # {}
       THEN /\ last' = Outcome("delete", property_id, "currently_rented")
            /\ UNCHANGED dbvars
       ELSE IF ~confirm
       THEN /\ last' = Outcome("delete", property_id, "cancelled")
            /\ UNCHANGED dbvars
       ELSE IF fault = "delete_picture" /\ property_id \in pictures
       THEN /\ last' = Outcome("delete", property_id, "OSError")
            /\ UNCHANGED dbvars
       ELSE /\ pictures' = delete_picture(pictures, property_id)
            /\ properties' = DeletePropertyRow(properties, property_id)
            /\ payments' = DeletePayments(payments, property_id)
            /\ last' = Outcome("delete", property_id, "ok")
            /\ UNCHANGED <<clients, rentals, seq>>
    /\ UNCHANGED <<variant, memvars, calc, held>>

\* ------------------------------------------------------------------ payments
\* record_payment: one INSERT, unless next_due_date raises first. The schema's
\* FOREIGN KEY clauses are not enforced (the connection never turns
\* PRAGMA foreign_keys on), so no reference is looked up.
record_payment(client_id, property_id, amount, paid_on, freq) ==
    /\ variant = "sqlite"
    /\ seq.payments < MaxPayments
    /\ LET nd == next_due_date(paid_on, freq) IN
       IF nd = ValueError
       THEN /\ last' = Outcome("pay", property_id, "ValueError")
            /\ UNCHANGED dbvars
       ELSE /\ payments' = payments \cup
                   {[id          |-> seq.payments + 1,
                     client_id   |-> client_id,
                     property_id |-> property_id,
                     amount      |-> amount,
                     paid_on     |-> paid_on,
                     frequency   |-> freq,
                     next_due    |-> nd]}
            /\ seq' = [seq EXCEPT !.payments = seq.payments + 1]
            /\ last' = Outcome("pay", property_id, "ok")
            /\ UNCHANGED <<clients, properties, rentals, pictures>>
    /\ UNCHANGED <<variant, memvars, calc, held>>

\* ------------------------------------------------------------------ in-memory program
\* Rental.calculate_next_due of leasing_Wdb: the monthly day is clamped to 28.
calculate_next_due(start_date, payment_frequency) ==
    IF payment_frequency = "monthly"
    THEN LET month == start_date[2] + 1
             day   == IF start_date[3] < 28 THEN start_date[3] ELSE 28
         IN IF month > 12
            THEN MakeDate(start_date[1] + 1, 1, day)
            ELSE MakeDate(start_date[1], month, day)
    ELSE MakeDate(start_date[1] + 1, start_date[2], start_date[3])

\* duration_months of leasing_Wdb.rent_property: no adjustment for the day.
DurationMonthsMem(start, end) ==
    (end[1] - start[1]) * 12 + (end[2] - start[2])

\* leasing_Wdb.add_property: the category is checked, the rent period is not.
add_property(category, yearly_rent, monthly_rent, rent_period) ==
    /\ variant = "memory"
    /\ Len(mproperties) < MaxProperties
    /\ IF category \notin Categories
       THEN /\ last' = Outcome("add", NULL, "invalid_category")
            /\ UNCHANGED mproperties
       ELSE LET rent_amount == IF rent_period = "yearly" THEN yearly_rent
                               ELSE monthly_rent
                prop == [id          |-> Len(mproperties) + 1,
                         category    |-> category,
                         kind        |-> IF category = "land" THEN NullText ELSE "kind",
                         rent_amount |-> rent_amount,
                         rent_period |-> rent_period,
                         available   |-> TRUE]
            IN /\ mproperties' = Append(mproperties, prop)
               /\ last' = Outcome("add", prop.id, "ok")
    /\ UNCHANGED <<variant, dbvars, mclients, mrentals, calc, held>>

\* leasing_Wdb.rent_property. input_date asks again until it is given a date, so
\* both dates are dates. An exception raised inside Rental.__init__ ends the
\* process, and the lists with it: the next run starts from empty lists.
rent_property(number, name, start_date, end_date, payment_frequency) ==
    /\ variant = "memory"
    /\ start_date # NoDate
    /\ end_date # NoDate
    /\ LET available_props == SelectSeq(mproperties, LAMBDA p : p.available)
           choice == number - 1
       IN
       IF mproperties = <<>>
       THEN /\ last' = Outcome("rent", NULL, "no_properties")
            /\ UNCHANGED memvars
       ELSE IF available_props = <<>>
       THEN /\ last' = Outcome("rent", NULL, "no_available_properties")
            /\ UNCHANGED memvars
       ELSE IF choice < 0 \/ choice >= Len(available_props)
       THEN /\ last' = Outcome("rent", NULL, "invalid_selection")
            /\ UNCHANGED memvars
       ELSE
       LET prop == available_props[choice + 1]
           client == [id |-> Len(mclients) + 1, name |-> name]
           duration_months == DurationMonthsMem(start_date, end_date)
           total_amount == TotalAmount(prop.rent_amount, prop.rent_period, duration_months)
           next_due == calculate_next_due(start_date, payment_frequency)
       IN
       /\ Len(mclients) < MaxClients
       /\ IF ~DateLess(start_date, end_date)
          THEN /\ mclients' = Append(mclients, client)
               /\ last' = Outcome("rent", prop.id, "end_not_after_start")
               /\ UNCHANGED <<mproperties, mrentals>>
          ELSE IF next_due = ValueError
          THEN /\ mclients' = <<>>
               /\ mproperties' = <<>>
               /\ mrentals' = <<>>
               /\ last' = Outcome("rent", prop.id, "ValueError")
          ELSE /\ mclients' = Append(mclients, client)
               /\ mproperties' = [mproperties EXCEPT ![prop.id].available = FALSE]
               /\ mrentals' = Append(mrentals,
                                 [client            |-> client.id,
                                  property          |-> prop.id,
                                  start_date        |-> start_date,
                                  end_date          |-> end_date,
                                  total_amount      |-> total_amount,
                                  payment_frequency |-> payment_frequency,
                                  next_due_date     |-> next_due])
               /\ last' = Outcome("rent", prop.id, "ok")
    /\ UNCHANGED <<variant, dbvars, calc, held>>

\* ------------------------------------------------------------------ machine
Init ==
    /\ variant \in {"sqlite", "memory"}
    /\ clients = {}
    /\ properties = {}
    /\ rentals = {}
    /\ payments = {}
    /\ seq = [clients |-> 0, properties |-> 0, rentals |-> 0, payments |-> 0]
    /\ pictures = {}
    /\ mclients = <<>>
    /\ mproperties = <<>>
    /\ mrentals = <<>>
    /\ last = Outcome("start", NULL, "ok")
    /\ calc = NoQuery
    /\ held = NoObject

AddProperty ==
    \E i \in AddInputs :
        add_property_interactive(i.category, i.rent_amount_yearly,
                                 i.rent_amount_monthly, i.rent_period, i.upload)

RentProperty ==
    \E i \in RentInputs :
        rent_property_interactive(i.number, i.name, i.start_date, i.end_date,
                                  i.payment_method, i.payment_frequency, i.confirm, "none")

DeleteProperty ==
    \E property_id \in 1..MaxProperties + 1, confirm \in BOOLEAN :
        delete_property_interactive(property_id, confirm, "none")

RecordPayment ==
    \E i \in PaymentInputs :
        record_payment(i.client_id, i.property_id, i.amount, i.paid_on, i.freq)

AddPropertyMem ==
    \E i \in AddInputs :
        add_property(i.category, i.rent_amount_yearly, i.rent_amount_monthly,
                     i.rent_period)

RentPropertyMem ==
    \E i \in RentInputsMem :
        rent_property(i.number, i.name, i.start_date, i.end_date, i.payment_frequency)

Next ==
    \/ AddProperty
    \/ RentProperty
    \/ DeleteProperty
    \/ RecordPayment
    \/ AddPropertyMem
    \/ RentPropertyMem

Spec == Init /\ [][Next]_vars

\* The same machine when a statement may fail: db.execute raising
\* sqlite3.OperationalError, os.remove raising OSError.
RentFault ==
    \E i \in RentInputs, fault \in {"rental_save", "update_property"} :
        rent_property_interactive(i.number, i.name, i.start_date, i.end_date,
                                  i.payment_method, i.payment_frequency, i.confirm, fault)

DeleteFault ==
    \E property_id \in 1..MaxProperties + 1, confirm \in BOOLEAN :
        delete_property_interactive(property_id, confirm, "delete_picture")

NextFault ==
    \/ Next
    \/ RentFault
    \/ DeleteFault

SpecFault == Init /\ [][NextFault]_vars

\* ------------------------------------------------------------------ scheduling machine
\* The scheduling functions on their own: a computation is chosen at the start
\* and the functions of the running program are applied to it.
ScheduleYears == 2023..(2022 + YearSpan)
ScheduleDays == {1, 15, 20, 28, 29, 30, 31}

ScheduleDates ==
    {d \in ScheduleYears \X (1..12) \X ScheduleDays : ValidDate(d[1], d[2], d[3])}

LedgerFrequencies == PAYMENT_FREQUENCIES \cup {"annual"}

ScheduleQueries ==
    {Query("duration", s, e, NullText) : s \in ScheduleDates, e \in ScheduleDates}
    \cup {Query("next_due", s, NoDate, f) : s \in ScheduleDates, f \in PAYMENT_FREQUENCIES}
    \cup {Query("ledger_due", s, NoDate, f) : s \in ScheduleDates, f \in LedgerFrequencies}

InitSchedule ==
    /\ variant \in {"sqlite", "memory"}
    /\ clients = {}
    /\ properties = {}
    /\ rentals = {}
    /\ payments = {}
    /\ seq = [clients |-> 0, properties |-> 0, rentals |-> 0, payments |-> 0]
    /\ pictures = {}
    /\ mclients = <<>>
    /\ mproperties = <<>>
    /\ mrentals = <<>>
    /\ last = Outcome("start", NULL, "ok")
    /\ calc \in ScheduleQueries
    /\ held = NoObject

\* The date the next application starts from: the argument, then the result.
Operand == IF calc.out = <<>> THEN calc.start_date ELSE calc.out[Len(calc.out)]

CanApplyAgain ==
    /\ Len(calc.out) < 2
    /\ Operand # ValueError
    /\ Operand # NoDate

\* leasing.py: duration_months of rent_property_interactive
ApplyDuration ==
    /\ variant = "sqlite"
    /\ calc.fn = "duration"
    /\ calc.out = <<>>
    /\ calc' = [calc EXCEPT !.out = <<DurationMonths(calc.start_date, calc.end_date)>>]
    /\ UNCHANGED <<variant, dbvars, memvars, last, held>>

\* leasing.py: calculate_next_due_date
ApplyNextDue ==
    /\ variant = "sqlite"
    /\ calc.fn = "next_due"
    /\ CanApplyAgain
    /\ calc' = [calc EXCEPT !.out = Append(@, calculate_next_due_date(Operand, calc.frequency))]
    /\ UNCHANGED <<variant, dbvars, memvars, last, held>>

\* leasing.py: next_due_date
ApplyLedgerDue ==
    /\ variant = "sqlite"
    /\ calc.fn = "ledger_due"
    /\ CanApplyAgain
    /\ calc' = [calc EXCEPT !.out = Append(@, next_due_date(Operand, calc.frequency))]
    /\ UNCHANGED <<variant, dbvars, memvars, last, held>>

\* leasing_Wdb.py: duration_months of rent_property
ApplyDurationMem ==
    /\ variant = "memory"
    /\ calc.fn = "duration"
    /\ calc.out = <<>>
    /\ calc' = [calc EXCEPT !.out = <<DurationMonthsMem(calc.start_date, calc.end_date)>>]
    /\ UNCHANGED <<variant, dbvars, memvars, last, held>>

\* leasing_Wdb.py: Rental.calculate_next_due
ApplyNextDueMem ==
    /\ variant = "memory"
    /\ calc.fn = "next_due"
    /\ CanApplyAgain
    /\ calc' = [calc EXCEPT !.out = Append(@, calculate_next_due(Operand, calc.frequency))]
    /\ UNCHANGED <<variant, dbvars, memvars, last, held>>

NextSchedule ==
    \/ ApplyDuration
    \/ ApplyNextDue
    \/ ApplyLedgerDue
    \/ ApplyDurationMem
    \/ ApplyNextDueMem

SpecSchedule == InitSchedule /\ [][NextSchedule]_vars

\* ------------------------------------------------------------------ properties
\* The property row with a given id, and whether one exists.
HasProperty(table, id) == \E p \in table : p.id = id
HasClient(table, id) == \E c \in table : c.id = id
IsActivelyRented(id) == \E r \in rentals : r.property_id = id /\ r.status = "active"
IsRentedMem(id) == \E j \in 1..Len(mrentals) : mrentals[j].property = id

C2_RentalOnlyWhileAvailable ==
    [][/\ \A r \in rentals' \ rentals :
              \E p \in properties : p.id = r.property_id /\ p.is_available = 1
       /\ \A r1, r2 \in rentals' :
              (r1.property_id = r2.property_id /\ r1.status = "active"
                  /\ r2.status = "active") => r1 = r2
       /\ Len(mrentals') > Len(mrentals) =>
              /\ Len(mrentals') = Len(mrentals) + 1
              /\ mproperties[mrentals'[Len(mrentals')].property].available
       /\ \A j, k \in 1..Len(mrentals') :
              mrentals'[j].property = mrentals'[k].property => j = k]_vars

\* C2 witness: a rent request was turned away at the selection while a property
\* was rented.
C2_Witness ==
    /\ last.op = "rent"
    /\ last.result \in {"no_available_properties", "invalid_selection"}
    /\ \E p \in properties : p.is_available = 0 /\ IsActivelyRented(p.id)

SelectionRefusals == {"no_properties", "no_available_properties", "invalid_selection"}

\* C3: a confirmed rent of an available property adds exactly one active rental
\* for it and makes it unavailable; a rent step never adds a rental for a property
\* that is unavailable, nor makes it available.
C3_RentFlipsAvailability ==
    [][/\ (last'.op = "rent" /\ last'.result = "ok" /\ variant = "sqlite") =>
              /\ \E p \in properties : p.id = last'.target /\ p.is_available = 1
              /\ \E p \in properties' : p.id = last'.target /\ p.is_available = 0
              /\ \E r \in rentals' :
                    /\ rentals' = rentals \cup {r}
                    /\ r \notin rentals
                    /\ r.property_id = last'.target
                    /\ r.status = "active"
       /\ (last'.op = "rent" /\ last'.result = "ok" /\ variant = "memory") =>
              /\ mproperties[last'.target].available
              /\ ~mproperties'[last'.target].available
              /\ Len(mrentals') = Len(mrentals) + 1
              /\ mrentals'[Len(mrentals')].property = last'.target
       /\ last'.op = "rent" =>
              /\ \A p \in properties : p.is_available = 0 =>
                    /\ p \in properties'
                    /\ \A r \in rentals' \ rentals : r.property_id # p.id
              /\ \A i \in 1..Len(mproperties) : ~mproperties[i].available =>
                    /\ Len(mproperties') >= i => ~mproperties'[i].available
                    /\ \A j \in Len(mrentals) + 1..Len(mrentals') :
                          mrentals'[j].property # i
              /\ ((\A p \in properties : p.is_available = 0)
                     /\ \A i \in 1..Len(mproperties) : ~mproperties[i].available) =>
                    /\ last'.result \in SelectionRefusals
                    /\ rentals' = rentals
                    /\ mrentals' = mrentals]_vars

\* C3 witness: a rent has just completed and left its property unavailable.
C3_Witness ==
    /\ last.op = "rent"
    /\ last.result = "ok"
    /\ \E p \in properties : p.id = last.target /\ p.is_available = 0
    /\ \E q \in properties : q.is_available = 1

\* C4: a rent that fails at any statement leaves no rental row and no
\* availability flip recorded.
C4_RentIsAtomic ==
    [][(last'.op = "rent" /\ last'.result # "ok") =>
           (rentals' = rentals /\ properties' = properties)]_vars

\* C5: a rent aborted by a validation failure leaves clients, properties,
\* rentals and payments as they were.
ValidationFailures ==
    {"start_date_required", "end_date_required", "end_not_after_start",
     "duration_not_positive", "invalid_payment_method", "invalid_payment_frequency"}

C5_ValidationAbortWritesNothing ==
    [][(last'.op = "rent" /\ last'.result \in ValidationFailures) =>
           UNCHANGED <<clients, properties, rentals, payments, mclients,
                       mproperties, mrentals>>]_vars

\* C6: deleting a property that an active rental references is refused and
\* changes nothing: property rows, payment rows, rentals and pictures stay.
C6_DeleteRentedRefused ==
    [][(last'.op = "delete" /\ IsActivelyRented(last'.target)) =>
           /\ last'.result = "currently_rented"
           /\ UNCHANGED <<clients, properties, rentals, payments, seq, pictures>>]_vars

\* C6 witness: a delete of a rented property that has a picture and a payment
\* row has just been refused.
C6_Witness ==
    /\ last.op = "delete"
    /\ last.result = "currently_rented"
    /\ last.target \in pictures
    /\ \E q \in payments : q.property_id = last.target

\* C7: a confirmed delete of a stored property with no active rental succeeds;
\* afterwards its row and its payment rows are gone and every other property,
\* every client and every other payment is unchanged.
C7_DeleteRemovesRowAndPayments ==
    [][/\ (last'.op = "delete" /\ HasProperty(properties, last'.target)
              /\ ~IsActivelyRented(last'.target)) =>
              last'.result \in {"ok", "cancelled"}
       /\ (last'.op = "delete" /\ last'.result = "ok") =>
              /\ HasProperty(properties, last'.target)
              /\ ~HasProperty(properties', last'.target)
              /\ \A q \in payments' : q.property_id # last'.target
              /\ properties' = {p \in properties : p.id # last'.target}
              /\ payments' = {q \in payments : q.property_id # last'.target}
              /\ clients' = clients]_vars

\* C7 witness: a delete has just succeeded and removed a payment row, while
\* another property is still stored.
C7_Witness ==
    /\ last.op = "delete"
    /\ last.result = "ok"
    /\ properties # {}
    /\ seq.payments > Cardinality(payments)

\* C8: a failure of the picture removal does not block the deletion: the
\* property row and its payment rows are removed all the same.
C8_PictureFailureDoesNotBlock ==
    [][(last'.op = "delete" /\ last'.result = "OSError") =>
           /\ ~HasProperty(properties', last'.target)
           /\ \A q \in payments' : q.property_id # last'.target]_vars

\* C9: every payment row refers to an existing client and, when its property_id
\* is not null, to an existing property.
C9_PaymentReferencesExist ==
    \A q \in payments :
        /\ HasClient(clients, q.client_id)
        /\ q.property_id # NULL => HasProperty(properties, q.property_id)

\* C10: every rental row refers to an existing client and an existing property.
C10_RentalReferencesExist ==
    \A r \in rentals :
        /\ HasClient(clients, r.client_id)
        /\ HasProperty(properties, r.property_id)

\* C10 witness: a rental is stored after a property has been deleted.
C10_Witness ==
    /\ rentals # {}
    /\ seq.properties > Cardinality(properties)

\* ------------------------------------------------------------------ catalog machine
\* add_property_interactive on its own, with every answer to the category and
\* rent period prompts.
InitCatalog ==
    /\ Init
    /\ variant = "sqlite"

AddAnyProperty ==
    \E category \in Categories \cup {"castle"}, rent_period \in RENT_PERIODS \cup {"weekly"},
       upload \in BOOLEAN :
        add_property_interactive(category, 12000, 1000, rent_period, upload)

NextCatalog == AddAnyProperty

SpecCatalog == InitCatalog /\ [][NextCatalog]_vars

\* ------------------------------------------------------------------ save machine
\* The save methods on their own: an object of one class is constructed, gets
\* attributes assigned and is saved, in any order and any number of times.
NewObjects ==
    {Object("client", [id |-> NULL, name |-> n]) : n \in {"ann", "bob"}}
    \cup {Object("property", NewProperty(c, 1000, "monthly")) : c \in {"residential", "land"}}
    \cup {Object("rental",
                 [id                |-> NULL,
                  client_id         |-> 1,
                  property_id       |-> 1,
                  start_date        |-> Jan15,
                  end_date          |-> Mar20,
                  duration_months   |-> DurationMonths(Jan15, Mar20),
                  total_amount      |-> TotalAmount(1000, "monthly", DurationMonths(Jan15, Mar20)),
                  payment_method    |-> "cash",
                  payment_frequency |-> "monthly",
                  next_due_date     |-> calculate_next_due_date(Jan15, "monthly"),
                  status            |-> "active"])}

InitSave ==
    /\ Init
    /\ variant = "sqlite"

\* A constructor call; a run works on the objects of one class.
Construct ==
    \E o \in NewObjects :
        /\ held.type \in {"none", o.type}
        /\ held' = o
        /\ last' = Outcome("construct", NULL, "ok")
        /\ UNCHANGED <<variant, dbvars, memvars, calc>>

\* An attribute assignment on the object held.
Assign ==
    /\ held.type # "none"
    /\ held' = CASE held.type = "client"   -> [held EXCEPT !.obj.name = "bob"]
                  [] held.type = "property" -> [held EXCEPT !.obj.is_available = FALSE]
                  [] held.type = "rental"   -> [held EXCEPT !.obj.status = "ended"]
    /\ held' # held
    /\ last' = Outcome("assign", held.obj.id, "ok")
    /\ UNCHANGED <<variant, dbvars, memvars, calc>>

\* obj.save(db) on the object held; the object keeps the id it was given.
Save ==
    /\ variant = "sqlite"
    /\ held.type # "none"
    /\ LET o == held.obj
           branch == IF o.id = NULL THEN "inserted" ELSE "updated"
       IN
       CASE held.type = "client" ->
              LET saved == ClientSaveObject(clients, seq.clients, o) IN
              /\ o.id = NULL => seq.clients < MaxClients
              /\ clients' = saved.table
              /\ seq' = [seq EXCEPT !.clients = saved.high]
              /\ held' = [held EXCEPT !.obj.id = saved.id]
              /\ last' = Outcome("save", saved.id, branch)
              /\ UNCHANGED <<properties, rentals, payments, pictures>>
         [] held.type = "property" ->
              LET saved == PropertySave(properties, seq.properties, o) IN
              /\ o.id = NULL => seq.properties < MaxProperties
              /\ properties' = saved.table
              /\ seq' = [seq EXCEPT !.properties = saved.high]
              /\ held' = [held EXCEPT !.obj.id = saved.id]
              /\ last' = Outcome("save", saved.id, branch)
              /\ UNCHANGED <<clients, rentals, payments, pictures>>
         [] held.type = "rental" ->
              LET saved == RentalSaveObject(rentals, seq.rentals, o) IN
              /\ o.id = NULL => seq.rentals < MaxProperties
              /\ rentals' = saved.table
              /\ seq' = [seq EXCEPT !.rentals = saved.high]
              /\ held' = [held EXCEPT !.obj.id = saved.id]
              /\ last' = Outcome("save", saved.id, branch)
              /\ UNCHANGED <<clients, properties, payments, pictures>>
    /\ UNCHANGED <<variant, memvars, calc>>

NextSave ==
    \/ Construct
    \/ Assign
    \/ Save

SpecSave == InitSave /\ [][NextSave]_vars

\* ------------------------------------------------------------------ ledger machine
\* record_payment on its own, with every combination of its arguments.
LedgerInputs ==
    [client_id : 1..MaxClients, property_id : {1, NULL}, amount : {-500, 0, 500},
     paid_on : {Jan15, Jan31, Feb29, Mar20}, freq : LedgerFrequencies]

InitLedger ==
    /\ Init
    /\ variant = "sqlite"

RecordAnyPayment ==
    \E i \in LedgerInputs :
        record_payment(i.client_id, i.property_id, i.amount, i.paid_on, i.freq)

NextLedger == RecordAnyPayment

SpecLedger == InitLedger /\ [][NextLedger]_vars

\* ------------------------------------------------------------------ C11
\* A computation of the rent workflow's duration that has returned.
DurationComputed == variant = "sqlite" /\ calc.fn = "duration" /\ calc.out # <<>>

\* C11: the duration_months of the rent workflow is the difference in calendar
\* months between start and end, plus one exactly when the day of the end date
\* is later in its month than the day of the start date; from 2024-01-15 to
\* 2024-03-20 it is 3.
C11_DurationFormula ==
    DurationComputed =>
        LET s == calc.start_date
            e == calc.end_date
            months == (e[1] - s[1]) * 12 + (e[2] - s[2])
        IN /\ calc.out[1] \in {months, months + 1}
           /\ calc.out[1] = months + 1 <=> e[3] > s[3]
           /\ (s = Jan15 /\ e = Mar20) => calc.out[1] = 3

C11_Witness ==
    /\ DurationComputed
    /\ calc.start_date = Jan15
    /\ calc.end_date = Mar20
    /\ calc.out = <<3>>

\* ------------------------------------------------------------------ C12
\* C12: the duration from a date to itself is 0, and for a fixed start the
\* duration never decreases as the end date moves later.
C12_DurationMonotone ==
    DurationComputed =>
        /\ calc.start_date = calc.end_date => calc.out[1] = 0
        /\ \A later \in ScheduleDates :
               ~DateLess(later, calc.end_date) =>
                   calc.out[1] <= DurationMonths(calc.start_date, later)

C12_Witness ==
    /\ DurationComputed
    /\ calc.start_date = Jan31
    /\ calc.end_date = Jan31
    /\ calc.out = <<0>>

\* ------------------------------------------------------------------ C13
\* C13: a rent whose computed duration is 0 or negative is rejected, so no
\* recorded rental has a computed duration of 0 or less (in the in-memory
\* program the duration of a rental is the one rent_property computed from its
\* two dates).
C13_NoRentalWithoutDuration ==
    /\ \A r \in rentals : r.duration_months > 0
    /\ \A i \in 1..Len(mrentals) :
           DurationMonthsMem(mrentals[i].start_date, mrentals[i].end_date) > 0

\* ------------------------------------------------------------------ C14
\* C14: the total_amount of every recorded rental is the rented property's
\* rent_amount times the duration when the property is rented by the month, and
\* a twelfth of its rent_amount times the duration when it is rented by the
\* year: 12000 a year for 3 months is 3000, 1000 a month for 3 months is 3000.
TotalIsOf(total_amount, rent_amount, rent_period, duration_months) ==
    /\ rent_period = "monthly" => total_amount = rent_amount * duration_months
    /\ rent_period = "yearly" => total_amount * 12 = rent_amount * duration_months

C14_TotalAmount ==
    /\ \A r \in rentals : \A p \in properties :
           p.id = r.property_id =>
               TotalIsOf(r.total_amount, p.rent_amount, p.rent_period, r.duration_months)
    /\ \A i \in 1..Len(mrentals) :
           LET r == mrentals[i]
               p == mproperties[r.property]
           IN TotalIsOf(r.total_amount, p.rent_amount, p.rent_period,
                        DurationMonthsMem(r.start_date, r.end_date))

C14_Witness ==
    \E r \in rentals : \E p \in properties :
        /\ p.id = r.property_id
        /\ p.rent_period = "yearly"
        /\ p.rent_amount = 12000
        /\ r.duration_months = 3
        /\ r.total_amount = 3000

\* ------------------------------------------------------------------ C15
\* Months counted from year 0, so that the month after December is January of
\* the next year.
MonthIndex(date) == date[1] * 12 + date[2]

IsDate(value) == Len(value) = 3 /\ ValidDate(value[1], value[2], value[3])

\* A next-due computation of the given frequency that has returned n times.
DueComputed(frequency, n) ==
    /\ calc.fn \in {"next_due", "ledger_due"}
    /\ calc.frequency = frequency
    /\ Len(calc.out) = n

\* C15: for every valid date, the days 29, 30 and 31 before a shorter month
\* included, the monthly next due date is a valid date in the following month;
\* the computation never fails.
C15_MonthlyNextDueIsValid ==
    DueComputed("monthly", 1) =>
        /\ calc.out[1] # ValueError
        /\ IsDate(calc.out[1])
        /\ MonthIndex(calc.out[1]) = MonthIndex(calc.start_date) + 1

\* ------------------------------------------------------------------ C16
\* C16: where the monthly next due date of d and the monthly next due date of
\* that date are both defined, the second is a date in the month two calendar
\* months after the month of d, the year rolling over after December.
C16_TwoMonthsAfterTwice ==
    (DueComputed("monthly", 2) /\ calc.out[2] # ValueError) =>
        /\ IsDate(calc.out[2])
        /\ MonthIndex(calc.out[2]) = MonthIndex(calc.start_date) + 2

C16_Witness ==
    /\ variant = "sqlite"
    /\ calc.fn = "next_due"
    /\ calc.frequency = "monthly"
    /\ calc.start_date = <<2023, 12, 15>>
    /\ calc.out = << <<2024, 1, 15>>, <<2024, 2, 15>> >>

\* ------------------------------------------------------------------ C17
\* C17: for every valid date, February 29 of a leap year included, the yearly
\* next due date is the valid date of the next year with the same month and day.
C17_YearlyNextDue ==
    (calc.fn = "next_due" /\ calc.frequency = "yearly" /\ Len(calc.out) >= 1) =>
        /\ calc.out[1] # ValueError
        /\ IsDate(calc.out[1])
        /\ calc.out[1] = <<calc.start_date[1] + 1, calc.start_date[2], calc.start_date[3]>>

\* ------------------------------------------------------------------ C18
\* C18: record_payment appends exactly one payment row and leaves every
\* rental row, every property row and every client row as it was.
C18_PaymentAppendsOneRow ==
    [][last'.op = "pay" =>
           /\ payments \subseteq payments'
           /\ Cardinality(payments') = Cardinality(payments) + 1
           /\ UNCHANGED <<rentals, properties, clients>>]_vars

\* ------------------------------------------------------------------ C19
\* C19: for the frequencies monthly and yearly and every paid_on date, the row
\* record_payment appends has a next_due that is not null and is the date
\* calculate_next_due_date gives for that date and frequency.
C19_PaymentNextDue ==
    \A q \in payments :
        q.frequency \in PAYMENT_FREQUENCIES =>
            /\ q.next_due # NoDate
            /\ q.next_due = calculate_next_due_date(q.paid_on, q.frequency)

\* ------------------------------------------------------------------ C20
\* The category-specific columns of a property row, and those of each category.
ExtraFields == {"kind", "bedrooms", "bathrooms", "land_use", "amenities", "capacity"}

ExtraFieldsOf(category) ==
    CASE category = "commercial"  -> {"kind"}
      [] category = "residential" -> {"kind", "bedrooms", "bathrooms"}
      [] category = "land"        -> {"land_use"}
      [] category = "resorts"     -> {"kind", "amenities"}
      [] category = "venues"      -> {"kind", "capacity"}

IsNull(row, field) ==
    IF field \in {"bedrooms", "bathrooms", "capacity"}
    THEN row[field] = NULL
    ELSE row[field] = NullText

\* C20: in every stored property row exactly the extra fields of the row's
\* category are non-null (commercial: kind; residential: kind, bedrooms,
\* bathrooms; land: land_use, and no kind; resorts: kind, amenities; venues:
\* kind, capacity); the extra fields of the other categories are null.
C20_CategoryFields ==
    \A p \in properties :
        {f \in ExtraFields : ~IsNull(p, f)} = ExtraFieldsOf(p.category)

C20_Witness ==
    /\ \E p \in properties :
           /\ p.category = "land"
           /\ p.picture_path # NoPath
           /\ p.land_use # NullText
           /\ p.kind = NullText
    /\ \E p \in properties :
           /\ p.category = "residential"
           /\ p.bedrooms # NULL
           /\ p.bathrooms # NULL
           /\ p.capacity = NULL

\* ------------------------------------------------------------------ C21
\* The table of a class of entities.
TableOf(type) ==
    CASE type = "client"   -> clients
      [] type = "property" -> properties
      [] type = "rental"   -> rentals

Ids(table) == {r.id : r \in table}

\* C21: save on an object without an id inserts exactly one row and returns the
\* id it assigned; save on an object with an id adds no row, changes no row but
\* the one with that id, and returns that id; a save that directly follows a
\* save of the same object leaves the store as it was.
C21_SaveInsertsThenUpdates ==
    [][last'.op = "save" =>
           LET before == TableOf(held.type)
               after == TableOf(held.type)'
               id == last'.target
           IN /\ held.obj.id = NULL =>
                     /\ before \subseteq after
                     /\ Cardinality(after) = Cardinality(before) + 1
                     /\ id \notin Ids(before)
                     /\ id \in Ids(after)
              /\ held.obj.id # NULL =>
                     /\ id = held.obj.id
                     /\ Cardinality(after) = Cardinality(before)
                     /\ {r \in after : r.id # id} = {r \in before : r.id # id}
              /\ held'.obj.id = id
              /\ last.op = "save" => after = before /\ seq' = seq
              /\ \A type \in {"client", "property", "rental"} \ {held.type} :
                     TableOf(type)' = TableOf(type)]_vars

C21_Witness ==
    /\ last.op = "save"
    /\ last.result = "updated"
    /\ held.type = "rental"
    /\ held.obj.status = "ended"
    /\ \E r \in rentals : r.id = held.obj.id /\ r.status = "ended"
    /\ \E r \in rentals : r.id # held.obj.id /\ r.status = "active"

\* ------------------------------------------------------------------ C22
\* C22: every stored property has a rent_period of RENT_PERIODS, every stored
\* rental a payment_frequency of PAYMENT_FREQUENCIES and a payment_method of
\* PAYMENT_METHODS; a value outside these sets is refused and nothing is stored
\* for it.
C22_EnumeratedValues ==
    /\ \A p \in properties : p.rent_period \in RENT_PERIODS
    /\ \A r \in rentals :
           /\ r.payment_frequency \in PAYMENT_FREQUENCIES
           /\ r.payment_method \in PAYMENT_METHODS
    /\ \A i \in 1..Len(mproperties) : mproperties[i].rent_period \in RENT_PERIODS
    /\ \A i \in 1..Len(mrentals) : mrentals[i].payment_frequency \in PAYMENT_FREQUENCIES

\* ------------------------------------------------------------------ C23
\* C23: record_payment with an amount of 0 or less fails and appends no row, so
\* every payment row has an amount above 0.
C23_PaymentAmountPositive ==
    \A q \in payments : q.amount > 0

\* ------------------------------------------------------------------ C24
\* A step of the program that ends a rental: an active rental becomes 'ended'
\* and its property available again (in the in-memory program, whose rentals
\* have no status, a rented property becomes available again).
EndsARental ==
    /\ Next
    /\ \/ \E r \in rentals :
             /\ r.status = "active"
             /\ \E x \in rentals' : x.id = r.id /\ x.status = "ended"
             /\ \E p \in properties' : p.id = r.property_id /\ p.is_available = 1
       \/ \E i \in 1..Len(mproperties) :
             /\ ~mproperties[i].available
             /\ Len(mproperties') >= i
             /\ mproperties'[i].available

\* C24: in every state in which a property is unavailable because of an active
\* rental, an end operation is enabled that sets the rental's status to 'ended'
\* and the property's availability to true.
C24_EndOperationEnabled ==
    (\/ \E p \in properties : p.is_available = 0 /\ ActiveRentals(rentals, p.id) # {}
     \/ \E i \in 1..Len(mproperties) : ~mproperties[i].available)
        => ENABLED EndsARental

\* ------------------------------------------------------------------ C25
\* The place of a date in the calendar, as one number.
DayNumber(date) == date[1] * 10000 + date[2] * 100 + date[3]

StartsBeforeEnd(r) == DayNumber(r.start_date) < DayNumber(r.end_date)

\* C25: a rent request whose end date is not after its start date is turned
\* away without recording a rental or changing the availability of a property,
\* and every stored rental starts strictly before it ends.
C25_EndAfterStart ==
    /\ [](/\ \A r \in rentals : StartsBeforeEnd(r)
          /\ \A i \in 1..Len(mrentals) : StartsBeforeEnd(mrentals[i]))
    /\ [][(last'.op = "rent" /\ last'.result = "end_not_after_start") =>
              UNCHANGED <<rentals, properties, mrentals, mproperties>>]_vars

C25_Witness ==
    /\ last.op = "rent"
    /\ last.result = "end_not_after_start"
    /\ \/ \E p \in properties : p.id = last.target /\ p.is_available = 1
       \/ \E i \in 1..Len(mproperties) :
             mproperties[i].id = last.target /\ mproperties[i].available

\* ------------------------------------------------------------------ C26
\* C26: for every pair of dates start < end the two rent workflows compute the
\* same duration in months, and with it the same total amount for a property.
C26_SameDurationInBothPrograms ==
    (calc.fn = "duration" /\ calc.out # <<>> /\ DateLess(calc.start_date, calc.end_date)) =>
        /\ calc.out[1] = DurationMonths(calc.start_date, calc.end_date)
        /\ calc.out[1] = DurationMonthsMem(calc.start_date, calc.end_date)
        /\ \A rent_period \in RENT_PERIODS :
               TotalAmount(12000, rent_period, calc.out[1])
                   = TotalAmount(12000, rent_period,
                                 DurationMonths(calc.start_date, calc.end_date))

UniqueIds(table) == \A a, b \in table : a.id = b.id => a = b

UniqueIdsMem(list) == \A i, j \in 1..Len(list) : list[i].id = list[j].id => i = j

\* C28: no two stored clients and no two stored properties share an id, and a
\* property added later never gets an id that was assigned before, whether or
\* not the property that had it was deleted.
C28_IdsUniqueAndStable ==
    /\ [](/\ UniqueIds(clients)
          /\ UniqueIds(properties)
          /\ UniqueIdsMem(mclients)
          /\ UniqueIdsMem(mproperties)
          /\ \A p \in properties : p.id <= seq.properties)
    /\ [][/\ seq'.properties >= seq.properties
           /\ \A p \in properties' :
                  p.id \notin Ids(properties) => p.id > seq.properties]_vars

C28_Witness ==
    /\ last.op = "add"
    /\ last.result = "ok"
    /\ \E p \in properties : p.id = last.target /\ p.id > Cardinality(properties)
    /\ \E q \in payments :
           q.property_id # NULL /\ ~HasProperty(properties, q.property_id)
====
